---------------------------- MODULE Spec2Model ----------------------------
(***************************************************************************)
(* A model of the USB GCN adapter (WUP-028) support module, src/main.c.    *)
(*                                                                         *)
(* The module replaces PADRead and PADControlMotor.  The first PADRead     *)
(* opens /dev/usb/hid asynchronously; from then on a chain of IOS          *)
(* completion callbacks probes the interface version, tracks the device    *)
(* list, runs the handshake and polls the adapter.  PADRead returns the    *)
(* most recent decoded report.                                             *)
(*                                                                         *)
(* Conventions of the model:                                               *)
(*  - a 32 bit word that is only compared for equality or against small    *)
(*    numbers is an integer, and -1 stands for 0xFFFFFFFF ((uint32_t)-1);  *)
(*  - the time base and gcn_data_written, on which 32 bit arithmetic is    *)
(*    done, are pairs <<high half-word, low half-word>>;                   *)
(*  - every callback runs to completion (it runs in interrupt context);    *)
(*    PADRead and PADControlMotor run with interrupts disabled, so each    *)
(*    of them is one step as well;                                         *)
(*  - the values IOS hands to a callback (result codes, the contents of    *)
(*    the buffers it fills) and the result of every submission are inputs  *)
(*    of the step.                                                         *)
(***************************************************************************)
EXTENDS Integers, Sequences, FiniteSets, Bags, TLC

(***************************************************************************)
(* Program constants                                                       *)
(***************************************************************************)
GCN_CONTROLLER_COUNT == 4
GCN_TRIGGER_THRESHOLD == 170
RUMBLE_BUFFER == 16
RUMBLE_DELAY == 3
WUP_028_ID == 92144439
WUP_028_POLL_SIZE == 37
WUP_028_DESCRIPTOR_SIZE == 68
DEV_USB_HID4_DEVICE_CHANGE_SIZE == 384
DEV_USB_HID4_VERSION == 262145
DEV_USB_HID5_DEVICE_CHANGE_SIZE == 32
DEV_USB_HID5_VERSION == 327681
PADData_ERROR_NONE == 0
PADData_ERROR_NO_CONNECTION == -1
PADData_ERROR_2 == -2

(***************************************************************************)
(* Bounds of the model                                                     *)
(***************************************************************************)
\* IOS accepts a request only while fewer than this many are outstanding.
MaxInflight == 2
\* The time base is advanced at most this many times in a behaviour.
MaxTicks == 3
\* PADControlMotor is called while the write cursor is below this.
MaxMotorCalls == 3
\* The same as MaxInflight, in the specification of the rumble queue.
MaxInflightRumble == 4

\* Requests IOS holds at most in the version 5 handshake specification.
MaxInflightV5 == 3

Slots == 0 .. (GCN_CONTROLLER_COUNT - 1)

(***************************************************************************)
(* Fixed width integers                                                    *)
(***************************************************************************)
ToUint8(n) == n % 256

ToInt8(n) == IF n % 256 >= 128 THEN (n % 256) - 256 ELSE n % 256

HalfWord == 2^16

\* A 32 bit unsigned value 0 <= n < 2^31 as a pair of half-words.
U32(n) == <<n \div HalfWord, n % HalfWord>>

Add32(a, b) ==
    <<(a[1] + b[1] + ((a[2] + b[2]) \div HalfWord)) % HalfWord,
      (a[2] + b[2]) % HalfWord>>

\* a - b in uint32_t arithmetic (modulo 2^32).
Sub32(a, b) ==
    <<(a[1] - b[1] - (IF a[2] < b[2] THEN 1 ELSE 0)) % HalfWord,
      (a[2] - b[2]) % HalfWord>>

Gt32(a, b) == a[1] > b[1] \/ (a[1] = b[1] /\ a[2] > b[2])

\* #define ms * (243000/4)   #define GCN_TIMEOUT (1500 ms)
GCN_TIMEOUT == U32(1500 * (243000 \div 4))

(***************************************************************************)
(* Data                                                                    *)
(***************************************************************************)
\* A zero-initialised PADData_t (static storage).
ZeroPad ==
    [buttons |-> 0, aStickX |-> 0, aStickY |-> 0, cStickX |-> 0,
     cStickY |-> 0, sliderL |-> 0, sliderR |-> 0, unknown8 |-> 0,
     unknown9 |-> 0, error |-> 0]

\* A zero-initialised PadOrigin (static storage).
ZeroOrigin ==
    [init |-> 0, stickX |-> 0, stickY |-> 0, cStickX |-> 0, cStickY |-> 0,
     analogL |-> 0, analogR |-> 0]

\* The nine bytes of one controller in a report, all zero.
ZeroBytes == <<0, 0, 0, 0, 0, 0, 0, 0, 0>>

VARIABLES
    started,              \* int8_t started
    dev_usb_hid_fd,       \* ios_fd_t dev_usb_hid_fd
    gcn_adapter_id,       \* uint32_t gcn_adapter_id, -1 for (uint32_t)-1
    version,              \* int8_t version
    error,                \* int8_t error
    errorMethod,          \* int8_t errorMethod
    gcn_data,             \* PADData_t gcn_data[4]
    gcn_stick_origin,     \* PadOrigin gcn_stick_origin[4]
    gcn_data_written,     \* uint32_t gcn_data_written
    rumble_sent,          \* write cursor
    rumble_recv,          \* read cursor
    rumble_buffer,        \* uint8_t rumble_buffer[16][4]
    rumble_delay,         \* uint8_t rumble_delay
    rumble_token,         \* uint8_t rumble_token
    rumble_msg_buffer,    \* bytes 1..4 of rumble_msg_buffer
    poll_msg_buffer,      \* the report IOS wrote: [type, slot]
    dev_usb_hid5_devices, \* the device list IOS wrote for version 5
    dev_usb_hid5_buffer,  \* words 0 and 16 of dev_usb_hid5_buffer
    inflight,             \* the requests IOS holds, a bag of [cb, usr]
    ios_queue,            \* how many requests IOS holds at most
    closes,               \* the handles IOS_CloseAsync was called with
    opens,                \* how many times IOS_OpenAsync was called
    hung,                 \* a callback is in a loop that never ends
    tb,                   \* the time base register read by mftb
    result,               \* the caller's array after the last PADRead
    elapsed,              \* ticks since gcn_data_written was last stamped
    nTicks,               \* how many times the time base was advanced
    readPc,               \* the slot myPADRead copies next, -1 outside it
    seen,                 \* gcn_data when myPADRead began to copy
    queued,               \* the snapshots enqueued and not yet dequeued
    act                   \* the operation of the last step and its inputs

vars ==
    <<started, dev_usb_hid_fd, gcn_adapter_id, version, error, errorMethod,
      gcn_data, gcn_stick_origin, gcn_data_written, rumble_sent, rumble_recv,
      rumble_buffer, rumble_delay, rumble_token, rumble_msg_buffer,
      poll_msg_buffer, dev_usb_hid5_devices, dev_usb_hid5_buffer,
      inflight, ios_queue, closes, opens, hung, tb, result, elapsed, nTicks,
      readPc, seen, queued, act>>

padVars ==
    <<gcn_data, gcn_stick_origin, gcn_data_written, result, poll_msg_buffer>>

rumbleVars ==
    <<rumble_sent, rumble_recv, rumble_buffer, rumble_delay, rumble_token,
      rumble_msg_buffer, queued>>

sessionVars ==
    <<started, dev_usb_hid_fd, gcn_adapter_id, version, error, errorMethod,
      dev_usb_hid5_devices, dev_usb_hid5_buffer,
      closes, opens, hung>>

timeVars == <<tb, nTicks, ios_queue>>

readVars == <<readPc, seen>>

\* The state of the module when the game starts.
InitModule ==
    /\ started = 0
    /\ dev_usb_hid_fd = -1
    /\ gcn_adapter_id = -1
    /\ version = 0
    /\ error = 0
    /\ errorMethod = 0
    /\ gcn_data = [i \in Slots |-> ZeroPad]
    /\ gcn_stick_origin = [i \in Slots |-> ZeroOrigin]
    /\ gcn_data_written = <<0, 0>>
    /\ rumble_sent = 0
    /\ rumble_recv = 0
    /\ rumble_buffer =
           [k \in 0 .. (RUMBLE_BUFFER - 1) |-> [i \in Slots |-> 0]]
    /\ rumble_delay = 0
    /\ rumble_token = 0
    /\ rumble_msg_buffer = [i \in Slots |-> 0]
    /\ poll_msg_buffer = [type |-> 0, slot |-> [i \in Slots |-> ZeroBytes]]
    /\ dev_usb_hid5_devices = <<>>
    /\ dev_usb_hid5_buffer = [w0 |-> 0, w16 |-> 0]
    /\ inflight = EmptyBag
    /\ closes = <<>>
    /\ opens = 0
    /\ hung = FALSE
    /\ tb = <<0, 0>>
    /\ result = [i \in Slots |-> ZeroPad]
    /\ elapsed = [w |-> 0, t |-> <<0, 0>>]
    /\ nTicks = 0
    /\ queued = <<>>
    /\ readPc = -1
    /\ seen = [i \in Slots |-> ZeroPad]
    /\ act = [name |-> "init", in |-> <<>>]

Init == InitModule /\ ios_queue = MaxInflight


(***************************************************************************)
(* IOS: asynchronous requests                                              *)
(***************************************************************************)
\* A request IOS holds: the callback and its user data.  The requests of
\* the version 5 handshake pass NULL; for them usr is the device id in the
\* buffer the request was submitted with, which no callback reads.
Req(cb, usr) == [cb |-> cb, usr |-> usr]

Count(bag, cb) ==
    LET hit == {r \in BagToSet(bag) : r.cb = cb}
        RECURSIVE Sum(_)
        Sum(S) == IF S = {} THEN 0
                  ELSE LET r == CHOOSE x \in S : TRUE
                       IN CopiesIn(r, bag) + Sum(S \ {r})
    IN Sum(hit)

\* The result sub of a submission on handle fd while bag is outstanding:
\* 0 (accepted) needs an open handle and room in the queue; a rejection is
\* possible at any time.
SubOk(sub, bag, fd) ==
    sub # 0 \/ (fd >= 0 /\ BagCardinality(bag) < ios_queue)

\* The outstanding requests after a submission that returned sub.
Submit(bag, req, sub) == IF sub = 0 THEN bag (+) SetToBag({req}) ELSE bag

Complete(bag, req) == bag (-) SetToBag({req})

(***************************************************************************)
(* Top level interface to game                                             *)
(***************************************************************************)
\* padNoConnection(i), on gcn_data[i] and on gcn_stick_origin[i].
padNoConnection(d) == [d EXCEPT !.error = PADData_ERROR_NO_CONNECTION]

\* A padNoConnection that leaves the calibration origin as it is.
padNoConnectionOrigin_Keeps(o) == o

padNoConnectionOrigin(o) == [o EXCEPT !.init = 0]

\* mftb() - gcn_data_written > GCN_TIMEOUT
TimedOut(now, written) == Gt32(Sub32(now, written), GCN_TIMEOUT)

\* A myPADRead that does not record that it ran.
ReadStarted_Forgets == started

\* started after myPADRead.
ReadStarted == 1

\* A myPADRead that leaves a reported error in place.
ReadErrorMethod_Keeps(em) == em

\* errorMethod after myPADRead.
ReadErrorMethod(em) == IF em > 0 THEN ToInt8(-em) ELSE em

\* Which of the resets of myPADRead is taken, with the clock stamped at
\* written: "error", "timeout" or "none".
ReadReset(em, now, written) ==
    IF em > 0 THEN "error"
    ELSE IF TimedOut(now, written) THEN "timeout"
    ELSE "none"

\* result[i] = gcn_data[i]; if (gcn_data[i].error == 0) ... = PADData_ERROR_2
ReadMark(d) ==
    IF d.error = PADData_ERROR_NONE THEN [d EXCEPT !.error = PADData_ERROR_2]
    ELSE d

myPADRead(sub) ==
    LET first == started = 0
        written == IF first THEN tb ELSE gcn_data_written
        reset == ReadReset(errorMethod, tb, written)
        clear == first \/ reset # "none"
        data == [i \in Slots |->
                    IF clear THEN padNoConnection(gcn_data[i])
                    ELSE gcn_data[i]]
    IN  /\ ~hung
        /\ first => (sub # 0 \/ BagCardinality(inflight) < ios_queue)
        /\ ~first => sub = 0
        /\ started' = ReadStarted
        /\ gcn_data_written' = written
        /\ elapsed' = IF first THEN [w |-> 0, t |-> <<0, 0>>] ELSE elapsed
        /\ opens' = IF first THEN opens + 1 ELSE opens
        /\ inflight' = IF first
                       THEN Submit(inflight, Req("onDevOpen", 0), sub)
                       ELSE inflight
        /\ errorMethod' = ReadErrorMethod(errorMethod)
        /\ gcn_stick_origin' =
               [i \in Slots |->
                   IF clear THEN padNoConnectionOrigin(gcn_stick_origin[i])
                   ELSE gcn_stick_origin[i]]
        /\ result' = data
        /\ gcn_data' = [i \in Slots |-> ReadMark(data[i])]
        /\ act' = [name |-> "PADRead", in |-> <<reset>>]
        /\ UNCHANGED <<dev_usb_hid_fd, gcn_adapter_id, version, error,
                       poll_msg_buffer, dev_usb_hid5_devices, dev_usb_hid5_buffer, closes,
                       hung>>
        /\ UNCHANGED rumbleVars
        /\ UNCHANGED <<timeVars, readVars>>

\* myPADRead step by step, for the callbacks that arrive while it runs.
\* Callbacks run as interrupts, which are held off while nothing masks them.
Masked_Never == FALSE

\* cpu_isr_disable() ... cpu_isr_restore(isr) of myPADRead: interrupts are
\* masked while it is between the two.
Masked == readPc # -1

\* myPADRead from cpu_isr_disable() to the end of the resets.
ReadEnter(sub) ==
    LET first == started = 0
        written == IF first THEN tb ELSE gcn_data_written
        reset == ReadReset(errorMethod, tb, written)
        clear == first \/ reset # "none"
        data == [i \in Slots |->
                    IF clear THEN padNoConnection(gcn_data[i])
                    ELSE gcn_data[i]]
    IN  /\ ~hung
        /\ readPc = -1
        /\ first => (sub # 0 \/ BagCardinality(inflight) < ios_queue)
        /\ ~first => sub = 0
        /\ started' = ReadStarted
        /\ gcn_data_written' = written
        /\ elapsed' = IF first THEN [w |-> 0, t |-> <<0, 0>>] ELSE elapsed
        /\ opens' = IF first THEN opens + 1 ELSE opens
        /\ inflight' = IF first
                       THEN Submit(inflight, Req("onDevOpen", 0), sub)
                       ELSE inflight
        /\ errorMethod' = ReadErrorMethod(errorMethod)
        /\ gcn_stick_origin' =
               [i \in Slots |->
                   IF clear THEN padNoConnectionOrigin(gcn_stick_origin[i])
                   ELSE gcn_stick_origin[i]]
        /\ gcn_data' = data
        /\ readPc' = 0
        /\ seen' = data
        /\ act' = [name |-> "PADReadEnter", in |-> <<reset>>]
        /\ UNCHANGED <<dev_usb_hid_fd, gcn_adapter_id, version, error,
                       poll_msg_buffer, dev_usb_hid5_devices,
                       dev_usb_hid5_buffer, closes, hung, result>>
        /\ UNCHANGED rumbleVars
        /\ UNCHANGED timeVars

\* One turn of the copy loop of myPADRead.
ReadCopy ==
    /\ readPc \in Slots
    /\ result' = [result EXCEPT ![readPc] = gcn_data[readPc]]
    /\ gcn_data' = [gcn_data EXCEPT ![readPc] = ReadMark(gcn_data[readPc])]
    /\ readPc' = readPc + 1
    /\ act' = [name |-> "PADReadCopy", in |-> <<readPc>>]
    /\ UNCHANGED <<gcn_stick_origin, gcn_data_written, poll_msg_buffer,
                   inflight, elapsed, seen>>
    /\ UNCHANGED <<rumbleVars, sessionVars, timeVars>>

\* cpu_isr_restore(isr) and the return of myPADRead.
ReadLeave ==
    /\ readPc = GCN_CONTROLLER_COUNT
    /\ readPc' = -1
    /\ act' = [name |-> "PADRead", in |-> <<"left">>]
    /\ UNCHANGED <<padVars, rumbleVars, sessionVars, timeVars, inflight,
                   elapsed, seen>>

\* (unsigned int)(rumble_sent - 1) % RUMBLE_BUFFER
MotorPrev(sent) == (sent - 1) % RUMBLE_BUFFER

\* A myPADControlMotor that takes no command for redundant.
MotorRedundant_Never(buf, sent, pad, control) == FALSE

\* rumble_buffer[prev][pad] == (uint8_t)control
MotorRedundant(buf, sent, pad, control) ==
    buf[MotorPrev(sent)][pad] = ToUint8(control)

\* A snapshot that does not carry the other slots forward.
MotorSnapshot_Alone(buf, sent, pad, control) ==
    [i \in Slots |-> IF i = pad THEN ToUint8(control) ELSE 0]

\* The snapshot myPADControlMotor writes at the write cursor.
MotorSnapshot(buf, sent, pad, control) ==
    [i \in Slots |->
        IF i = pad THEN ToUint8(control) ELSE buf[MotorPrev(sent)][i]]

\* rumble_sent = (rumble_sent + 1) % RUMBLE_BUFFER
MotorAdvance(sent) == (sent + 1) % RUMBLE_BUFFER

\* The number of snapshots in the queue: the cursors' difference.
Pending == (rumble_sent - rumble_recv) % RUMBLE_BUFFER

myPADControlMotor(pad, control) ==
    /\ ~hung
    /\ IF pad \in Slots
          /\ ~MotorRedundant(rumble_buffer, rumble_sent, pad, control)
       THEN /\ rumble_buffer' =
                   [rumble_buffer EXCEPT
                       ![rumble_sent] =
                           MotorSnapshot(rumble_buffer, rumble_sent, pad,
                                         control)]
            /\ rumble_sent' = MotorAdvance(rumble_sent)
            /\ queued' = Append(queued, rumble_buffer'[rumble_sent])
       ELSE UNCHANGED <<rumble_buffer, rumble_sent, queued>>
    /\ act' = [name |-> "PADControlMotor",
               in |-> <<pad, control, Pending,
                        IF pad \in Slots
                        THEN rumble_buffer[MotorPrev(rumble_sent)][pad]
                        ELSE -1,
                        IF act.name = "PADControlMotor"
                        THEN <<act.in[1], act.in[2], act.in[3], act.in[4]>>
                        ELSE <<>>>>]
    /\ UNCHANGED <<rumble_recv, rumble_delay, rumble_token,
                   rumble_msg_buffer>>
    /\ UNCHANGED <<padVars, sessionVars, timeVars, readVars, inflight, elapsed>>

(***************************************************************************)
(* The time base                                                           *)
(***************************************************************************)
\* The ticks elapsed as [w, t]: w * 2^32 + t.
AddElapsed(e, dt) ==
    LET lo == e.t[2] + dt[2]
        hi == e.t[1] + dt[1] + (lo \div HalfWord)
    IN  [w |-> e.w + (hi \div HalfWord),
         t |-> <<hi % HalfWord, lo % HalfWord>>]

\* The time base register advances by dt ticks.
Tick(dt) ==
    /\ nTicks < MaxTicks
    /\ nTicks' = nTicks + 1
    /\ ios_queue' = ios_queue
    /\ tb' = Add32(tb, dt)
    /\ elapsed' = AddElapsed(elapsed, dt)
    /\ act' = [name |-> "Tick", in |-> <<dt>>]
    /\ UNCHANGED <<padVars, rumbleVars, sessionVars, inflight, readVars>>


(***************************************************************************)
(* Start of USB callback chain                                             *)
(***************************************************************************)
\* onError(): dev_usb_hid_fd = -1; IOS_CloseAsync(dev_usb_hid_fd, ...).
\* The handle stored afterwards, and the handle the close is called with.
onErrorFd(fd) == -1

onErrorClose(fd) == onErrorFd(fd)

\* The tail of the version and device-list callbacks: if (ret) { error =
\* ret; errorMethod = stage; onError(); }
FatalTail(r2, stage) ==
    IF r2 # 0
    THEN /\ error' = ToInt8(r2)
         /\ errorMethod' = stage
         /\ dev_usb_hid_fd' = onErrorFd(dev_usb_hid_fd)
         /\ closes' = Append(closes, onErrorClose(dev_usb_hid_fd))
    ELSE UNCHANGED <<error, errorMethod, dev_usb_hid_fd, closes>>

\* A tail that keeps the tracked device after a failure.
LocalTail_KeepsId(r2, stage) ==
    IF r2 # 0
    THEN /\ error' = ToInt8(r2)
         /\ errorMethod' = stage
         /\ gcn_adapter_id' = gcn_adapter_id
    ELSE UNCHANGED <<error, errorMethod, gcn_adapter_id>>

\* The tail of the handshake callbacks: if (ret) { error = ret;
\* errorMethod = stage; gcn_adapter_id = -1; }
LocalTail(r2, stage) ==
    IF r2 # 0
    THEN /\ error' = ToInt8(r2)
         /\ errorMethod' = stage
         /\ gcn_adapter_id' = -1
    ELSE UNCHANGED <<error, errorMethod, gcn_adapter_id>>

(***************************************************************************)
(* The rumble queue in the poll loop                                       *)
(***************************************************************************)
\* rumble_sent != rumble_recv
RumblePending(sent, recv) == sent # recv

\* The branch of sendPoll that takes the oldest snapshot off the queue.
RumbleDequeues(sent, recv, delay) == RumblePending(sent, recv) /\ delay = 0

\* rumble_delay after sendPoll.
RumbleDelayNext(sent, recv, delay) ==
    IF ~RumblePending(sent, recv) THEN delay
    ELSE IF delay = 0 THEN RUMBLE_DELAY
    ELSE ToUint8(delay - 1)

\* Whether sendPoll calls sendRumble4 or sendRumble5.
RumbleSubmits(sent, recv, delay) == RumblePending(sent, recv)

\* sendPoll() with bag outstanding, the submissions returning subR (the
\* rumble, when one is sent) and subP (the poll): the new queue state, the
\* requests outstanding afterwards and the value returned.
sendPoll(bag, subR, subP) ==
    LET deq == RumbleDequeues(rumble_sent, rumble_recv, rumble_delay)
        token == IF deq THEN ToUint8(rumble_token + 1) ELSE rumble_token
        known == version \in {4, 5}
        rumbles ==
            known /\ RumbleSubmits(rumble_sent, rumble_recv, rumble_delay)
        bag1 == IF rumbles
                THEN Submit(bag, Req("onRumble", token), subR)
                ELSE bag
        bag2 == IF known
                THEN Submit(bag1, Req("onDevUsbPoll", 0), subP)
                ELSE bag1
    IN  [recv |-> IF deq THEN (rumble_recv + 1) % RUMBLE_BUFFER
                  ELSE rumble_recv,
         delay |-> RumbleDelayNext(rumble_sent, rumble_recv, rumble_delay),
         token |-> token,
         msg |-> IF deq THEN rumble_buffer[rumble_recv]
                 ELSE rumble_msg_buffer,
         rumbles |-> rumbles,
         ok |-> /\ IF rumbles THEN SubOk(subR, bag, dev_usb_hid_fd)
                   ELSE subR = 0
                /\ IF known THEN SubOk(subP, bag1, dev_usb_hid_fd)
                   ELSE subP = 0,
         bag |-> bag2,
         ret |-> IF known THEN subP ELSE -1]

\* The assignments of sendPoll, from the record sp it computed.
SendPollEffect(sp) ==
    /\ sp.ok
    /\ rumble_recv' = sp.recv
    /\ rumble_delay' = sp.delay
    /\ rumble_token' = sp.token
    /\ rumble_msg_buffer' = sp.msg
    /\ inflight' = sp.bag
    /\ queued' = IF sp.recv # rumble_recv /\ queued # <<>>
                  THEN Tail(queued)
                  ELSE queued
    /\ UNCHANGED <<rumble_sent, rumble_buffer>>

onRumble(req) ==
    /\ ~hung
    /\ req \in BagToSet(inflight)
    /\ req.cb = "onRumble"
    /\ inflight' = Complete(inflight, req)
    /\ rumble_delay' = IF rumble_token = req.usr THEN 0 ELSE rumble_delay
    /\ act' = [name |-> "onRumble", in |-> <<req.usr>>]
    /\ UNCHANGED <<rumble_sent, rumble_recv, rumble_buffer, rumble_token,
                   rumble_msg_buffer, queued>>
    /\ UNCHANGED <<padVars, sessionVars, timeVars, readVars, elapsed>>

(***************************************************************************)
(* Decoding a report                                                       *)
(***************************************************************************)
Bit(n, k) == (n \div (2^k)) % 2

\* (data[0] >> 4) is 1 or 2
PollValid(d) == (d[1] \div 16) \in {1, 2}

\* An onDevUsbPoll that takes every report as the origin.
PollOrigin_Always(d, origin) ==
    [init |-> 1,
     stickX |-> ToInt8(d[4] - 128), stickY |-> ToInt8(d[5] - 128),
     cStickX |-> ToInt8(d[6] - 128), cStickY |-> ToInt8(d[7] - 128),
     analogL |-> d[8], analogR |-> d[9]]

\* gcn_stick_origin[i] after the slot's bytes d were decoded.
PollOrigin(d, origin) ==
    IF origin.init = 0
    THEN [init |-> 1,
          stickX |-> ToInt8(d[4] - 128), stickY |-> ToInt8(d[5] - 128),
          cStickX |-> ToInt8(d[6] - 128), cStickY |-> ToInt8(d[7] - 128),
          analogL |-> d[8], analogR |-> d[9]]
    ELSE origin

PollButtons(d) ==
      Bit(d[2], 0) * 256 + Bit(d[2], 1) * 512 + Bit(d[2], 2) * 1024
    + Bit(d[2], 3) * 2048 + Bit(d[2], 4) * 1 + Bit(d[2], 5) * 2
    + Bit(d[2], 6) * 4 + Bit(d[2], 7) * 8 + Bit(d[3], 0) * 4096
    + Bit(d[3], 1) * 16
    + (IF d[8] >= GCN_TRIGGER_THRESHOLD THEN 64 ELSE 0)
    + (IF d[9] >= GCN_TRIGGER_THRESHOLD THEN 32 ELSE 0)

\* out_data->aStickX = stickX - origin->stickX, with int8_t stickX =
\* data[3] - 128 and the int8_t field of PADData_t.
PollAxis(raw, org) == ToInt8(ToInt8(raw - 128) - org)

\* analogL < origin->analogL ? 0 : analogL - origin->analogL
PollSlider(raw, org) == IF raw < org THEN 0 ELSE ToUint8(raw - org)

\* gcn_data[i] after the slot's bytes d were decoded against origin org.
PollData(d, org, old) ==
    [buttons |-> PollButtons(d),
     aStickX |-> PollAxis(d[4], org.stickX),
     aStickY |-> PollAxis(d[5], org.stickY),
     cStickX |-> PollAxis(d[6], org.cStickX),
     cStickY |-> PollAxis(d[7], org.cStickY),
     sliderL |-> PollSlider(d[8], org.analogL),
     sliderR |-> PollSlider(d[9], org.analogR),
     unknown8 |-> 0, unknown9 |-> 0, error |-> PADData_ERROR_NONE]

\* A loop that stops at the first slot without a controller.
SlotDecoded_Break(buf, i) == \A k \in 0 .. i : PollValid(buf.slot[k])

\* Whether the loop of onDevUsbPoll decodes slot i of the report: it goes
\* on (continue) after a slot without a controller.
SlotDecoded(buf, i) == PollValid(buf.slot[i])

\* Whether onDevUsbPoll decodes the report it was handed.
PollDecodes(ret, report) == ret >= 0 /\ report.type = 33

\* An onDevUsbPoll that polls again only after a report it decoded.
PollResends_Decoded(ret, buf) == PollDecodes(ret, buf)

\* Whether onDevUsbPoll calls sendPoll.
PollResends(ret, buf) == ret >= 0

onDevUsbPoll(req, ret, report, subR, subP) ==
    LET bag == Complete(inflight, req)
        buf == IF ret >= 0 THEN report ELSE poll_msg_buffer
        dec == PollDecodes(ret, buf)
        again == PollResends(ret, buf)
        sp == sendPoll(bag, subR, subP)
        r2 == IF again THEN sp.ret ELSE ret
    IN  /\ ~hung
        /\ req \in BagToSet(inflight)
        /\ req.cb = "onDevUsbPoll"
        /\ poll_msg_buffer' = buf
        /\ gcn_stick_origin' =
               [i \in Slots |->
                   IF ~dec THEN gcn_stick_origin[i]
                   ELSE IF SlotDecoded(buf, i)
                   THEN PollOrigin(buf.slot[i], gcn_stick_origin[i])
                   ELSE padNoConnectionOrigin(gcn_stick_origin[i])]
        /\ gcn_data' =
               [i \in Slots |->
                   IF ~dec THEN gcn_data[i]
                   ELSE IF SlotDecoded(buf, i)
                   THEN PollData(buf.slot[i],
                                 PollOrigin(buf.slot[i], gcn_stick_origin[i]),
                                 gcn_data[i])
                   ELSE padNoConnection(gcn_data[i])]
        /\ gcn_data_written' = IF dec THEN tb ELSE gcn_data_written
        /\ elapsed' = IF dec THEN [w |-> 0, t |-> <<0, 0>>] ELSE elapsed
        /\ IF again
           THEN SendPollEffect(sp)
           ELSE /\ subR = 0 /\ subP = 0
                /\ inflight' = bag
                /\ UNCHANGED rumbleVars
        /\ LocalTail(r2, 9)
        /\ act' = [name |-> "onDevUsbPoll",
                   in |-> <<ret >= 0, again => sp.ret = 0>>]
        /\ UNCHANGED <<started, dev_usb_hid_fd, version, dev_usb_hid5_devices, dev_usb_hid5_buffer, closes,
                       opens, hung, result>>
        /\ UNCHANGED <<timeVars, readVars>>

onDevUsbInit(req, ret, subR, subP) ==
    LET bag == Complete(inflight, req)
        sp == sendPoll(bag, subR, subP)
        r2 == IF ret >= 0 THEN sp.ret ELSE ret
    IN  /\ ~hung
        /\ req \in BagToSet(inflight)
        /\ req.cb = "onDevUsbInit"
        /\ IF ret >= 0
           THEN SendPollEffect(sp)
           ELSE /\ subR = 0 /\ subP = 0
                /\ inflight' = bag
                /\ UNCHANGED rumbleVars
        /\ LocalTail(r2, 8)
        /\ act' = [name |-> "onDevUsbInit",
                   in |-> <<ret >= 0, ret >= 0 => sp.ret = 0>>]
        /\ UNCHANGED <<started, dev_usb_hid_fd, version, dev_usb_hid5_devices, dev_usb_hid5_buffer, closes,
                       opens, hung>>
        /\ UNCHANGED <<padVars, timeVars, readVars, elapsed>>


(***************************************************************************)
(* Opening the interface and probing its version                           *)
(***************************************************************************)
onDevOpen(req, fd, sub) ==
    LET bag == Complete(inflight, req)
        r2 == IF fd >= 0 THEN sub ELSE fd
    IN  /\ ~hung
        /\ req \in BagToSet(inflight)
        /\ req.cb = "onDevOpen"
        /\ IF fd >= 0 THEN SubOk(sub, bag, fd) ELSE sub = 0
        /\ dev_usb_hid_fd' = fd
        /\ inflight' = IF fd >= 0
                       THEN Submit(bag, Req("onDevGetVersion4", 0), sub)
                       ELSE bag
        /\ IF r2 # 0
           THEN error' = ToInt8(r2) /\ errorMethod' = 1
           ELSE UNCHANGED <<error, errorMethod>>
        /\ act' = [name |-> "onDevOpen", in |-> <<fd >= 0>>]
        /\ UNCHANGED <<started, gcn_adapter_id, version, dev_usb_hid5_devices, dev_usb_hid5_buffer, closes,
                       opens, hung>>
        /\ UNCHANGED <<padVars, rumbleVars, timeVars, readVars, elapsed>>

\* An onDevGetVersion4 that does not note the version it found.
Version4Selects_Never(is4, v) == v

\* version after onDevGetVersion4.
Version4Selects(is4, v) == IF is4 THEN 4 ELSE v

onDevGetVersion4(req, ret, sub) ==
    LET bag == Complete(inflight, req)
        is4 == ret = DEV_USB_HID4_VERSION
        next == IF is4 THEN "onDevUsbChange4" ELSE "onDevGetVersion5"
    IN  /\ ~hung
        /\ req \in BagToSet(inflight)
        /\ req.cb = "onDevGetVersion4"
        /\ SubOk(sub, bag, dev_usb_hid_fd)
        /\ version' = Version4Selects(is4, version)
        /\ inflight' = Submit(bag, Req(next, 0), sub)
        /\ FatalTail(sub, 2)
        /\ act' = [name |-> "onDevGetVersion4", in |-> <<is4, sub = 0>>]
        /\ UNCHANGED <<started, gcn_adapter_id, dev_usb_hid5_devices, dev_usb_hid5_buffer, opens,
                       hung>>
        /\ UNCHANGED <<padVars, rumbleVars, timeVars, readVars, elapsed>>

onDevGetVersion5(req, ret, w0, sub) ==
    LET bag == Complete(inflight, req)
        word == IF ret = 0 THEN w0 ELSE dev_usb_hid5_buffer.w0
        is5 == ret = 0 /\ word = DEV_USB_HID5_VERSION
        r2 == IF is5 THEN sub ELSE IF ret = 0 THEN word ELSE ret
    IN  /\ ~hung
        /\ req \in BagToSet(inflight)
        /\ req.cb = "onDevGetVersion5"
        /\ IF is5 THEN SubOk(sub, bag, dev_usb_hid_fd) ELSE sub = 0
        /\ dev_usb_hid5_buffer' = [dev_usb_hid5_buffer EXCEPT !.w0 = word]
        /\ version' = IF is5 THEN 5 ELSE version
        /\ inflight' = IF is5
                       THEN Submit(bag, Req("onDevUsbChange5", 0), sub)
                       ELSE bag
        /\ FatalTail(r2, 3)
        /\ act' = [name |-> "onDevGetVersion5", in |-> <<is5, sub = 0>>]
        /\ UNCHANGED <<started, gcn_adapter_id, dev_usb_hid5_devices, opens, hung>>
        /\ UNCHANGED <<padVars, rumbleVars, timeVars, readVars, elapsed>>

(***************************************************************************)
(* The device list, version 4                                              *)
(***************************************************************************)
\* dev_usb_hid4_devices[i]; the words IOS did not write are zero.
Word4(buf, i) == IF i < Len(buf) THEN buf[i + 1] ELSE 0

\* One record of the version 4 list: its size in bytes, the device id, and
\* the vendor and product id in word 4.
Entry4(size, id, vid_pid) ==
    <<size, id, 0, 0, vid_pid>> \o [k \in 1 .. ((size \div 4) - 5) |-> 0]

\* The scan of onDevUsbChange4 from word i: whether the adapter was found,
\* its device id, and whether the loop never ends (i += 0).
RECURSIVE Scan4(_, _)
Scan4(buf, i) ==
    IF ~(/\ i < DEV_USB_HID4_DEVICE_CHANGE_SIZE
         /\ Word4(buf, i) >= 0
         /\ Word4(buf, i) < 4 * DEV_USB_HID4_DEVICE_CHANGE_SIZE)
    THEN [found |-> FALSE, id |-> -1, hang |-> FALSE]
    ELSE IF /\ Word4(buf, i) = WUP_028_DESCRIPTOR_SIZE
            /\ Word4(buf, i + 4) = WUP_028_ID
    THEN [found |-> TRUE, id |-> Word4(buf, i + 1), hang |-> FALSE]
    ELSE IF Word4(buf, i) \div 4 = 0
    THEN [found |-> FALSE, id |-> -1, hang |-> TRUE]
    ELSE Scan4(buf, i + (Word4(buf, i) \div 4))

\* A scan that keeps the tracked device when the list has no adapter.
ChangeId_Keeps(sc, id) == IF sc.found THEN sc.id ELSE id

\* gcn_adapter_id after a device list was scanned with result sc.
ChangeId(sc, id) == IF sc.found THEN sc.id ELSE -1

\* A scan that starts the handshake for every adapter it finds.
ChangeStarts_Always(sc, id) == sc.found

\* Whether the scan starts the handshake.
ChangeStarts(sc, id) == sc.found /\ id # sc.id

onDevUsbChange4(req, ret, devs, subI, subC) ==
    LET bag == Complete(inflight, req)
        sc == Scan4(devs, 0)
        starts == ret >= 0 /\ ChangeStarts(sc, gcn_adapter_id)
        bag1 == IF starts
                THEN Submit(bag, Req("onDevUsbInit", 0), subI)
                ELSE bag
        r2 == IF ret >= 0 THEN subC ELSE ret
    IN  /\ ~hung
        /\ req \in BagToSet(inflight)
        /\ req.cb = "onDevUsbChange4"
        /\ IF ret >= 0 /\ sc.hang
           THEN /\ hung' = TRUE
                /\ subI = 0 /\ subC = 0
                /\ inflight' = bag
                /\ UNCHANGED <<gcn_adapter_id, error, errorMethod,
                               dev_usb_hid_fd, closes>>
           ELSE /\ hung' = hung
                /\ IF starts THEN SubOk(subI, bag, dev_usb_hid_fd)
                   ELSE subI = 0
                /\ IF ret >= 0 THEN SubOk(subC, bag1, dev_usb_hid_fd)
                   ELSE subC = 0
                /\ gcn_adapter_id' =
                       IF ret >= 0 THEN ChangeId(sc, gcn_adapter_id)
                       ELSE gcn_adapter_id
                /\ inflight' =
                       IF ret >= 0
                       THEN Submit(bag1, Req("onDevUsbChange4", 0), subC)
                       ELSE bag1
                /\ FatalTail(r2, 5)
        /\ act' = [name |-> "onDevUsbChange4",
                   in |-> <<ret >= 0, ret >= 0 /\ sc.found, subC = 0,
                            gcn_adapter_id, subI = 0, sc.id>>]
        /\ UNCHANGED <<started, version, dev_usb_hid5_devices,
                       dev_usb_hid5_buffer, opens>>
        /\ UNCHANGED <<padVars, rumbleVars, timeVars, readVars, elapsed>>

(***************************************************************************)
(* The device list and the handshake, version 5                            *)
(***************************************************************************)
onDevUsbChange5(req, ret, devs, subA) ==
    LET bag == Complete(inflight, req)
    IN  /\ ~hung
        /\ req \in BagToSet(inflight)
        /\ req.cb = "onDevUsbChange5"
        /\ IF ret >= 0 THEN SubOk(subA, bag, dev_usb_hid_fd) ELSE subA = 0
        /\ dev_usb_hid5_devices' =
               IF ret >= 0 THEN devs ELSE dev_usb_hid5_devices
        /\ inflight' = IF ret >= 0
                       THEN Submit(bag, Req("onDevUsbAttach5", ret), subA)
                       ELSE bag
        /\ FatalTail(IF ret >= 0 THEN subA ELSE ret, 4)
        /\ act' = [name |-> "onDevUsbChange5", in |-> <<ret >= 0>>]
        /\ UNCHANGED <<started, gcn_adapter_id, version, dev_usb_hid5_buffer, opens, hung>>
        /\ UNCHANGED <<padVars, rumbleVars, timeVars, readVars, elapsed>>

\* The scan of onDevUsbAttach5 over the first count records from record i.
RECURSIVE Scan5(_, _, _)
Scan5(devs, count, i) ==
    IF ~(i < DEV_USB_HID5_DEVICE_CHANGE_SIZE /\ i < count /\ i < Len(devs))
    THEN [found |-> FALSE, id |-> -1, hang |-> FALSE]
    ELSE IF devs[i + 1].vid_pid = WUP_028_ID
    THEN [found |-> TRUE, id |-> devs[i + 1].id, hang |-> FALSE]
    ELSE Scan5(devs, count, i + 1)

onDevUsbAttach5(req, ret, subS, subC) ==
    LET bag == Complete(inflight, req)
        sc == Scan5(dev_usb_hid5_devices, req.usr, 0)
        starts == ret = 0 /\ ChangeStarts(sc, gcn_adapter_id)
        bag1 == IF starts
                THEN Submit(bag, Req("onDevUsbResume5", sc.id), subS)
                ELSE bag
        r2 == IF ret = 0 THEN subC ELSE ret
    IN  /\ ~hung
        /\ req \in BagToSet(inflight)
        /\ req.cb = "onDevUsbAttach5"
        /\ IF starts THEN SubOk(subS, bag, dev_usb_hid_fd) ELSE subS = 0
        /\ IF ret = 0 THEN SubOk(subC, bag1, dev_usb_hid_fd) ELSE subC = 0
        /\ gcn_adapter_id' =
               IF ret # 0 THEN gcn_adapter_id
               ELSE IF starts /\ subS # 0 THEN -1
               ELSE ChangeId(sc, gcn_adapter_id)
        /\ dev_usb_hid5_buffer' =
               IF starts THEN [dev_usb_hid5_buffer EXCEPT !.w0 = sc.id]
               ELSE dev_usb_hid5_buffer
        /\ inflight' = IF ret = 0
                       THEN Submit(bag1, Req("onDevUsbChange5", 0), subC)
                       ELSE bag1
        /\ FatalTail(r2, 5)
        /\ act' = [name |-> "onDevUsbAttach5",
                   in |-> <<ret = 0, ret = 0 /\ sc.found, subC = 0,
                            gcn_adapter_id, subS = 0, sc.id>>]
        /\ UNCHANGED <<started, version, dev_usb_hid5_devices, opens, hung>>
        /\ UNCHANGED <<padVars, rumbleVars, timeVars, readVars, elapsed>>

onDevUsbResume5(req, ret, sub) ==
    LET bag == Complete(inflight, req)
    IN  /\ ~hung
        /\ req \in BagToSet(inflight)
        /\ req.cb = "onDevUsbResume5"
        /\ IF ret = 0 THEN SubOk(sub, bag, dev_usb_hid_fd) ELSE sub = 0
        /\ inflight' =
               IF ret = 0
               THEN Submit(bag,
                           Req("onDevUsbParams5", dev_usb_hid5_buffer.w0),
                           sub)
               ELSE bag
        /\ LocalTail(IF ret = 0 THEN sub ELSE ret, 6)
        /\ act' = [name |-> "onDevUsbResume5",
                   in |-> <<ret = 0, sub = 0, req.usr>>]
        /\ UNCHANGED <<started, dev_usb_hid_fd, version, dev_usb_hid5_devices, dev_usb_hid5_buffer, closes,
                       opens, hung>>
        /\ UNCHANGED <<padVars, rumbleVars, timeVars, readVars, elapsed>>

onDevUsbParams5(req, ret, sub) ==
    LET bag == Complete(inflight, req)
    IN  /\ ~hung
        /\ req \in BagToSet(inflight)
        /\ req.cb = "onDevUsbParams5"
        /\ IF ret = 0 THEN SubOk(sub, bag, dev_usb_hid_fd) ELSE sub = 0
        /\ dev_usb_hid5_buffer' =
               IF ret = 0
               THEN [dev_usb_hid5_buffer EXCEPT !.w16 = gcn_adapter_id]
               ELSE dev_usb_hid5_buffer
        /\ inflight' =
               IF ret = 0
               THEN Submit(bag, Req("onDevUsbInit", gcn_adapter_id), sub)
               ELSE bag
        /\ LocalTail(IF ret = 0 THEN sub ELSE ret, 7)
        /\ act' = [name |-> "onDevUsbParams5",
                   in |-> <<ret = 0, sub = 0, req.usr>>]
        /\ UNCHANGED <<started, dev_usb_hid_fd, version, dev_usb_hid5_devices, closes, opens, hung>>
        /\ UNCHANGED <<padVars, rumbleVars, timeVars, readVars, elapsed>>


(***************************************************************************)
(* Inputs                                                                  *)
(***************************************************************************)
\* What a submission returns: accepted, or rejected with a code.
Subs == {0, -7}

\* What IOS_OpenAsync hands to onDevOpen: a handle, or an error.
OpenFds == {3, -7}

\* Result codes of a request: done, failed.
Rets == {0, -7}

Version4Rets == {DEV_USB_HID4_VERSION, -7}

\* The result of the version 5 query and word 0 of its buffer.
Version5Ins ==
    {<<0, DEV_USB_HID5_VERSION>>, <<0, DEV_USB_HID4_VERSION>>, <<0, 0>>,
     <<-7, 0>>}

\* Version 4 lists, each ended by 0xFFFFFFFF: no device, the adapter as
\* device 1, the adapter as device 2 behind another device.
Lists4 ==
    {<<-1>>,
     Entry4(WUP_028_DESCRIPTOR_SIZE, 1, WUP_028_ID) \o <<-1>>,
     Entry4(32, 7, 74565) \o Entry4(WUP_028_DESCRIPTOR_SIZE, 2, WUP_028_ID)
         \o <<-1>>}

Lists5 ==
    {<<>>,
     <<[id |-> 1, vid_pid |-> WUP_028_ID]>>,
     <<[id |-> 7, vid_pid |-> 74565], [id |-> 2, vid_pid |-> WUP_028_ID]>>}

\* The nine bytes of a controller: status, two button bytes, four stick
\* bytes, two trigger bytes.
Absent == ZeroBytes

Centred == <<16, 0, 0, 131, 131, 131, 131, 0, 0>>

Report(type, s0, s3) ==
    [type |-> type,
     slot |-> [i \in Slots |-> IF i = 0 THEN s0 ELSE IF i = 3 THEN s3
                               ELSE Absent]]

\* Reports of the bring-up specification: a controller in slot 0 or none,
\* and a report of another type.
Reports == {Report(33, Centred, Absent), Report(0, Absent, Absent)}

(***************************************************************************)
(* Specification: bring-up with every failure                             *)
(***************************************************************************)
Read == \E sub \in Subs : myPADRead(sub)

Motor ==
    /\ rumble_sent < MaxMotorCalls
    /\ myPADControlMotor(0, 1 - rumble_buffer[MotorPrev(rumble_sent)][0])

Open == \E req \in BagToSet(inflight), fd \in OpenFds, sub \in Subs :
    onDevOpen(req, fd, sub)

GetVersion4 ==
    \E req \in BagToSet(inflight), ret \in Version4Rets, sub \in Subs :
        onDevGetVersion4(req, ret, sub)

GetVersion5 ==
    \E req \in BagToSet(inflight), in \in Version5Ins, sub \in Subs :
        onDevGetVersion5(req, in[1], in[2], sub)

Change4 ==
    \E req \in BagToSet(inflight), ret \in Rets, devs \in Lists4,
       subI \in Subs, subC \in Subs :
        onDevUsbChange4(req, ret, devs, subI, subC)

Change5 ==
    \E req \in BagToSet(inflight), devs \in Lists5, fails \in BOOLEAN,
       sub \in Subs :
        onDevUsbChange5(req, IF fails THEN -7 ELSE Len(devs), devs, sub)

Attach5 ==
    \E req \in BagToSet(inflight), ret \in Rets, subS \in Subs,
       subC \in Subs :
        onDevUsbAttach5(req, ret, subS, subC)

Resume5 == \E req \in BagToSet(inflight), ret \in Rets, sub \in Subs :
    onDevUsbResume5(req, ret, sub)

Params5 == \E req \in BagToSet(inflight), ret \in Rets, sub \in Subs :
    onDevUsbParams5(req, ret, sub)

UsbInit ==
    \E req \in BagToSet(inflight), ret \in Rets, subR \in Subs,
       subP \in Subs :
        onDevUsbInit(req, ret, subR, subP)

UsbPoll ==
    \E req \in BagToSet(inflight), ret \in {WUP_028_POLL_SIZE, -7},
       report \in Reports, subR \in Subs, subP \in Subs :
        onDevUsbPoll(req, ret, report, subR, subP)

Rumble == \E req \in BagToSet(inflight) : onRumble(req)

Next ==
    \/ Read
    \/ Open
    \/ GetVersion4
    \/ GetVersion5
    \/ Change4
    \/ Change5
    \/ Attach5
    \/ Resume5
    \/ Params5
    \/ UsbInit
    \/ UsbPoll

Spec == Init /\ [][Next]_vars

\* The game calls PADRead every frame and IOS completes every request it
\* holds.
Fairness ==
    /\ WF_vars(Read)
    /\ WF_vars(Open)
    /\ WF_vars(GetVersion4)
    /\ WF_vars(GetVersion5)
    /\ WF_vars(Change4)
    /\ WF_vars(Change5)
    /\ WF_vars(Attach5)
    /\ WF_vars(Resume5)
    /\ WF_vars(Params5)
    /\ WF_vars(UsbInit)
    /\ WF_vars(UsbPoll)

SpecFair == Spec /\ Fairness


(***************************************************************************)
(* Specification: the rumble queue, with the adapter attached (version 4)  *)
(***************************************************************************)
InitRumble == InitModule /\ ios_queue = MaxInflightRumble

\* Slots 0 and 2 and a slot out of range; intensities 0, 1 and 257, which
\* is 1 as a uint8_t.
MotorPads == {0, 2, GCN_CONTROLLER_COUNT}

MotorControls == {0, 1, 257}

AdapterList == Entry4(WUP_028_DESCRIPTOR_SIZE, 1, WUP_028_ID) \o <<-1>>

ReadR == myPADRead(0)

MotorR ==
    \E pad \in MotorPads, control \in MotorControls :
        rumble_sent < MaxMotorCalls /\ myPADControlMotor(pad, control)

OpenR == \E req \in BagToSet(inflight) : onDevOpen(req, 3, 0)

GetVersion4R ==
    \E req \in BagToSet(inflight) :
        onDevGetVersion4(req, DEV_USB_HID4_VERSION, 0)

Change4R ==
    \E req \in BagToSet(inflight) :
        onDevUsbChange4(req, 0, AdapterList, 0, 0)

UsbInitR == \E req \in BagToSet(inflight) : onDevUsbInit(req, 0, 0, 0)

UsbPollR ==
    \E req \in BagToSet(inflight) :
        onDevUsbPoll(req, WUP_028_POLL_SIZE, Report(33, Centred, Absent), 0,
                     0)

NextRumble ==
    \/ ReadR
    \/ MotorR
    \/ OpenR
    \/ GetVersion4R
    \/ Change4R
    \/ UsbInitR
    \/ UsbPollR
    \/ Rumble

SpecRumble == InitRumble /\ [][NextRumble]_vars

(***************************************************************************)
(* Specification: decoding reports, with the adapter attached (version 4)  *)
(***************************************************************************)
\* Samples of one controller: the stick moved right of centre, and a
\* wireless controller with the main stick at the ends of its range, the
\* A button held and the left trigger pulled.
Moved == <<16, 0, 0, 140, 131, 131, 131, 0, 0>>

Extreme == <<32, 1, 0, 0, 255, 131, 131, 200, 0>>

Samples0 == {Absent, Centred, Moved, Extreme}

Samples3 == {Absent, Centred}

ReportsPad ==
    {Report(33, s0, s3) : s0 \in Samples0, s3 \in Samples3}
        \cup {Report(0, Centred, Absent)}

UsbPollP ==
    \E req \in BagToSet(inflight), ret \in {WUP_028_POLL_SIZE, -7},
       report \in ReportsPad, subP \in Subs :
        onDevUsbPoll(req, ret, report, 0, subP)

NextPad ==
    \/ ReadR
    \/ OpenR
    \/ GetVersion4R
    \/ Change4R
    \/ UsbInitR
    \/ UsbPollP

SpecPad == Init /\ [][NextPad]_vars

(***************************************************************************)
(* Specification: the liveness clock, with the adapter attached (version 4)*)
(***************************************************************************)
\* One tick, the timeout to the tick, and what is left of a turn of the
\* 32-bit register after the timeout.
TickSteps == {U32(1), GCN_TIMEOUT, Sub32(<<0, 0>>, GCN_TIMEOUT)}

TickT == \E dt \in TickSteps : Tick(dt)

UsbPollT ==
    \E req \in BagToSet(inflight) :
        onDevUsbPoll(req, WUP_028_POLL_SIZE, Report(33, Centred, Centred), 0,
                     0)

NextTime ==
    \/ ReadR
    \/ OpenR
    \/ GetVersion4R
    \/ Change4R
    \/ UsbInitR
    \/ UsbPollT
    \/ TickT

SpecTime == Init /\ [][NextTime]_vars

(***************************************************************************)
(* Specification: callbacks arriving while myPADRead runs (version 4)      *)
(***************************************************************************)
ReportsRead ==
    {Report(33, Centred, Centred), Report(33, Moved, Absent),
     Report(33, Absent, Centred)}

ReadEnterI == ReadEnter(0)

OpenI == ~Masked /\ OpenR

GetVersion4I == ~Masked /\ GetVersion4R

Change4I == ~Masked /\ Change4R

UsbInitI == ~Masked /\ UsbInitR

UsbPollI ==
    /\ ~Masked
    /\ \E req \in BagToSet(inflight), report \in ReportsRead :
           onDevUsbPoll(req, WUP_028_POLL_SIZE, report, 0, 0)

NextRead ==
    \/ ReadEnterI
    \/ ReadCopy
    \/ ReadLeave
    \/ OpenI
    \/ GetVersion4I
    \/ Change4I
    \/ UsbInitI
    \/ UsbPollI

SpecRead == Init /\ [][NextRead]_vars

(***************************************************************************)
(* Specification: the version 5 handshake, the adapter changing identity   *)
(***************************************************************************)
InitV5 == InitModule /\ ios_queue = MaxInflightV5

\* The adapter listed as device 1, and as device 2 after it was plugged in
\* again.
AdapterLists5 ==
    {<<[id |-> 1, vid_pid |-> WUP_028_ID]>>,
     <<[id |-> 2, vid_pid |-> WUP_028_ID]>>}

GetVersion4N == \E req \in BagToSet(inflight) : onDevGetVersion4(req, -7, 0)

GetVersion5Y ==
    \E req \in BagToSet(inflight) :
        onDevGetVersion5(req, 0, DEV_USB_HID5_VERSION, 0)

Change5Y ==
    \E req \in BagToSet(inflight), devs \in AdapterLists5 :
        onDevUsbChange5(req, Len(devs), devs, 0)

Attach5Y == \E req \in BagToSet(inflight) : onDevUsbAttach5(req, 0, 0, 0)

Resume5Y == \E req \in BagToSet(inflight) : onDevUsbResume5(req, 0, 0)

Params5Y == \E req \in BagToSet(inflight) : onDevUsbParams5(req, 0, 0)

NextV5 ==
    \/ ReadR
    \/ OpenR
    \/ GetVersion4N
    \/ GetVersion5Y
    \/ Change5Y
    \/ Attach5Y
    \/ Resume5Y
    \/ Params5Y
    \/ UsbInitR
    \/ UsbPollR

SpecV5 == InitV5 /\ [][NextV5]_vars

(***************************************************************************)
(* Specification: the rumble queue filled to its capacity                  *)
(***************************************************************************)
\* The motor calls of a run, counting the snapshots already dequeued by
\* their tokens.
MaxQueueCalls == 16

\* Slot 0 switched on and off: each call repeats or inverts the intensity
\* queued last.
MotorQ ==
    \E control \in {0, 1} :
        /\ Len(queued) + rumble_token < MaxQueueCalls
        /\ myPADControlMotor(0, control)

NextQueue ==
    \/ ReadR
    \/ MotorQ
    \/ OpenR
    \/ GetVersion4R
    \/ Change4R
    \/ UsbInitR
    \/ UsbPollR
    \/ Rumble

SpecQueue == InitRumble /\ [][NextQueue]_vars

(***************************************************************************)
(* Specification: every way a slot loses its connection (version 4)        *)
(***************************************************************************)
\* Reports with a controller in slot 3, and in slot 0 or not.
ReportsOrigin == {Report(33, Centred, Centred), Report(33, Absent, Centred)}

\* A poll completes with a report or fails.
UsbPollO ==
    \E req \in BagToSet(inflight), ret \in {WUP_028_POLL_SIZE, -7},
       report \in ReportsOrigin :
        onDevUsbPoll(req, ret, report, 0, 0)

NextOrigin ==
    \/ ReadR
    \/ OpenR
    \/ GetVersion4R
    \/ Change4R
    \/ UsbInitR
    \/ UsbPollO
    \/ TickT

SpecOrigin == Init /\ [][NextOrigin]_vars

(***************************************************************************)
(* Specification: the adapter re-attached while a poll is outstanding      *)
(* (version 4)                                                             *)
(***************************************************************************)
\* The requests IOS holds at a time: the enumeration query, a poll and the
\* initialisation report of a new handshake.
MaxInflightChain == 3

InitChain == InitModule /\ ios_queue = MaxInflightChain

\* The enumeration completes with one of the lists; IOS accepts what the
\* completion submits.
Change4C ==
    \E req \in BagToSet(inflight), devs \in Lists4 :
        onDevUsbChange4(req, 0, devs, 0, 0)

NextChain ==
    \/ ReadR
    \/ OpenR
    \/ GetVersion4R
    \/ Change4C
    \/ UsbInitR
    \/ UsbPollR

SpecChain == InitChain /\ [][NextChain]_vars

(***************************************************************************)
(* Specification: device lists with any leading size word (version 4)      *)
(***************************************************************************)
\* The lists of the bring-up, a list whose first record has the size word
\* 0, and a list with a record of size word 2 behind another device.
ListsScan ==
    Lists4 \cup {<<0, 7, 0, 0, 74565, -1>>,
                 Entry4(32, 7, 74565) \o <<2, 8, 0, 0, 74565, -1>>}

Change4S ==
    \E req \in BagToSet(inflight), devs \in ListsScan :
        onDevUsbChange4(req, 0, devs, 0, 0)

NextScan ==
    \/ ReadR
    \/ OpenR
    \/ GetVersion4R
    \/ Change4S
    \/ UsbInitR
    \/ UsbPollR

SpecScan == InitChain /\ [][NextScan]_vars

(***************************************************************************)
(* Properties                                                              *)
(***************************************************************************)
NoConnection(d) == d.error = PADData_ERROR_NO_CONNECTION

\* The last step was a device-list completion (version 4: onDevUsbChange4,
\* version 5: onDevUsbAttach5) that succeeded, listed no adapter, and came
\* while a device was tracked.
ListedNone(a) ==
    /\ a.name \in {"onDevUsbChange4", "onDevUsbAttach5"}
    /\ a.in[1]
    /\ ~a.in[2]
    /\ a.in[4] # -1

\* C3: the asynchronous open is submitted exactly once, by the first
\* PADRead; a later PADRead submits no open, does not stamp the liveness
\* clock and leaves the count of opens alone, whatever completions
\* (failing ones included) came in between.
C3_OpenOnce ==
    [][/\ opens' # opens =>
              started = 0 /\ act'.name = "PADRead" /\ opens' = 1
       /\ act'.name = "PADRead" => opens' = 1 /\ started' = 1
       /\ (act'.name = "PADRead" /\ started = 1) =>
              /\ opens' = opens
              /\ inflight' = inflight
              /\ gcn_data_written' = gcn_data_written]_vars

\* A PADRead that came after a failure closed the interface.
C3_Witness ==
    /\ act.name = "PADRead"
    /\ errorMethod < 0
    /\ dev_usb_hid_fd = -1
    /\ Len(closes) > 0
    /\ opens = 1

\* C4: a PADRead that finds a recorded failure (errorMethod > 0) returns
\* "no connection" for all four slots and negates errorMethod; a PADRead
\* that finds none (and no timeout) returns the stored slots as they are
\* and resets none.
C4_ErrorConsumed ==
    [][act'.name = "PADRead" =>
          /\ errorMethod > 0 =>
                 /\ \A i \in Slots : NoConnection(result'[i])
                 /\ errorMethod' = -errorMethod
          /\ (started = 1 /\ errorMethod <= 0
                 /\ ~TimedOut(tb, gcn_data_written)) =>
                 /\ result' = gcn_data
                 /\ gcn_stick_origin' = gcn_stick_origin
                 /\ errorMethod' = errorMethod]_vars

\* A PADRead after the failure was consumed returns a connected slot.
C4_Witness ==
    /\ act.name = "PADRead"
    /\ errorMethod < 0
    /\ \E i \in Slots : ~NoConnection(result[i])

\* C10 as claimed: a device-list completion that lists no adapter while a
\* device is tracked sets gcn_adapter_id to -1 and changes nothing else of
\* the module's state.
C10_Original ==
    [][ListedNone(act') =>
          /\ gcn_adapter_id' = -1
          /\ UNCHANGED <<padVars, rumbleVars, error, errorMethod,
                         dev_usb_hid_fd, version, started, closes>>]_vars

\* C10, amended: the same, when the device-list query the callback issues
\* again is accepted; when it is rejected the callback records the code and
\* stage 5 and drops the handle, and still leaves the slots, the origins
\* and the liveness clock alone.
C10_ListedNone ==
    [][ListedNone(act') =>
          /\ gcn_adapter_id' = -1
          /\ UNCHANGED <<padVars, rumbleVars, version, started>>
          /\ IF act'.in[3]
             THEN UNCHANGED <<error, errorMethod, dev_usb_hid_fd, closes>>
             ELSE errorMethod' = 5 /\ dev_usb_hid_fd' = -1]_vars

\* The adapter left the list while a slot was connected: the identity is
\* gone, the handle is open and the slot is still connected.
C10_Witness ==
    /\ ListedNone(act)
    /\ act.in[3]
    /\ gcn_adapter_id = -1
    /\ dev_usb_hid_fd >= 0
    /\ \E i \in Slots : ~NoConnection(gcn_data[i])


\* The last two steps were PADControlMotor(s, v) and PADControlMotor(s, v)
\* again, with s a slot.
MotorTwice(a) ==
    /\ a.name = "PADControlMotor"
    /\ a.in[1] \in Slots
    /\ Len(a.in[5]) > 0
    /\ a.in[5][1] = a.in[1]
    /\ a.in[5][2] = a.in[2]

\* C2 as claimed: PADControlMotor(s, v) twice in a row leaves exactly one
\* more snapshot pending (modulo the capacity) than before the first call.
C2_Original ==
    MotorTwice(act) => Pending = (act.in[5][3] + 1) % RUMBLE_BUFFER

\* C2, amended: PADControlMotor(s, v) twice in a row leaves one more
\* snapshot pending when v, as 8 bits, differs from the intensity most
\* recently queued for s before the first call, and as many as before when
\* it does not; the second call adds none.
C2_TwiceAddsAtMostOne ==
    MotorTwice(act) =>
        /\ Pending =
               (act.in[5][3]
                    + (IF act.in[5][4] # act.in[2] % 256 THEN 1 ELSE 0))
                   % RUMBLE_BUFFER
        /\ Pending = act.in[3]

\* Two calls in a row of which the first was queued behind a pending
\* snapshot and the second was dropped.
C2_Witness ==
    /\ MotorTwice(act)
    /\ act.in[5][3] = 1
    /\ Pending = 2
    /\ act.in[2] = 257

\* The slot s, the intensity v and the place of the previous snapshot of a
\* PADControlMotor(s, v) step that is not redundant.
MotorQueues(s, v) ==
    /\ act'.name = "PADControlMotor"
    /\ act'.in[1] = s
    /\ act'.in[2] = v
    /\ rumble_buffer[(rumble_sent + RUMBLE_BUFFER - 1) % RUMBLE_BUFFER][s]
           # v % 256

\* What C5 says of everything but the value written for slot s.
MotorFrame(s) ==
    /\ \A i \in Slots \ {s} :
           rumble_buffer'[rumble_sent][i] =
               rumble_buffer[(rumble_sent + RUMBLE_BUFFER - 1)
                                 % RUMBLE_BUFFER][i]
    /\ \A k \in 0 .. (RUMBLE_BUFFER - 1) :
           k # rumble_sent => rumble_buffer'[k] = rumble_buffer[k]
    /\ rumble_sent' = (rumble_sent + 1) % RUMBLE_BUFFER
    /\ UNCHANGED <<rumble_recv, rumble_delay, rumble_token,
                   rumble_msg_buffer, padVars>>

\* C5 as claimed: the entry written has slot s equal to v.
C5_Original ==
    [][\A s \in Slots, v \in MotorControls :
           MotorQueues(s, v) =>
               rumble_buffer'[rumble_sent][s] = v /\ MotorFrame(s)]_vars

\* C5, amended: a PADControlMotor(s, v) that is not redundant writes at the
\* write cursor an entry whose slot s is v as 8 bits (v modulo 256) and
\* whose other slots are those of the entry before it, advances the write
\* cursor by one modulo 16, and leaves the rest of the queue, the read
\* cursor, the delay, the token and the controller state alone.
C5_Enqueue ==
    [][\A s \in Slots, v \in MotorControls :
           MotorQueues(s, v) =>
               rumble_buffer'[rumble_sent][s] = v % 256 /\ MotorFrame(s)]_vars

\* A command for slot 2 was queued behind one for slot 0, whose intensity
\* the new entry carries.
C5_Witness ==
    /\ act.name = "PADControlMotor"
    /\ act.in[1] = 2
    /\ act.in[4] = 0
    /\ rumble_sent = 2
    /\ rumble_buffer[1] = [i \in Slots |-> IF i \in {0, 2} THEN 1 ELSE 0]

\* How many rumble commands IOS holds.
RumblesOut(bag) == Count(bag, "onRumble")

\* The last step ran sendPoll: a poll or init completion that succeeded
\* (in[2]: no request it went on to submit was rejected).
PollCycle(a) == a.name \in {"onDevUsbPoll", "onDevUsbInit"} /\ a.in[1]

\* C8: a rumble command is submitted only in a poll cycle that takes a
\* snapshot off the queue.
C8_SubmitOnlyOnDequeue ==
    [][RumblesOut(inflight') > RumblesOut(inflight) =>
           /\ PollCycle(act')
           /\ RumblePending(rumble_sent, rumble_recv)
           /\ rumble_delay = 0
           /\ rumble_recv' = (rumble_recv + 1) % RUMBLE_BUFFER]_vars

\* C9: in every poll cycle that finds a rumble command not acknowledged
\* (rumble_delay > 0) the delay goes down by one, whether or not snapshots
\* are pending.
C9_DelayCountsDown ==
    [][(PollCycle(act') /\ rumble_delay > 0) =>
           rumble_delay' = rumble_delay - 1]_vars


\* The last step was an onDevUsbPoll that decoded a report in which slot i
\* has a valid status.
Decoded(a, buf, i) ==
    /\ a.name = "onDevUsbPoll"
    /\ a.in[1]
    /\ buf.type = 33
    /\ (buf.slot[i][1] \div 16) \in {1, 2}

\* The origin a slot's bytes d give: the sticks less 128, the triggers as
\* they are.
OriginOf(d) ==
    [init |-> 1, stickX |-> d[4] - 128, stickY |-> d[5] - 128,
     cStickX |-> d[6] - 128, cStickY |-> d[7] - 128, analogL |-> d[8],
     analogR |-> d[9]]

AxesZero(d) ==
    /\ d.aStickX = 0 /\ d.aStickY = 0 /\ d.cStickX = 0 /\ d.cStickY = 0
    /\ d.sliderL = 0 /\ d.sliderR = 0

\* C6: a report with a valid status for a slot that was 'no connection' is
\* captured as the slot's origin and gives zero on the four stick axes and
\* both sliders; a valid report for a slot that was not 'no connection'
\* leaves the origin unchanged; with the origin of {131,131,131,131,0,0}
\* the bytes {140,131,131,131,0,0} give aStickX = 9 and zero elsewhere.
C6_OriginCapture ==
    [][\A i \in Slots :
           Decoded(act', poll_msg_buffer', i) =>
               /\ NoConnection(gcn_data[i]) =>
                      /\ gcn_stick_origin'[i] =
                             OriginOf(poll_msg_buffer'.slot[i])
                      /\ AxesZero(gcn_data'[i])
               /\ ~NoConnection(gcn_data[i]) =>
                      gcn_stick_origin'[i] = gcn_stick_origin[i]
               /\ (/\ gcn_stick_origin'[i] = OriginOf(Centred)
                   /\ poll_msg_buffer'.slot[i] = Moved) =>
                      /\ gcn_data'[i].aStickX = 9
                      /\ gcn_data'[i].aStickY = 0
                      /\ gcn_data'[i].cStickX = 0
                      /\ gcn_data'[i].cStickY = 0
                      /\ gcn_data'[i].sliderL = 0
                      /\ gcn_data'[i].sliderR = 0]_vars

\* Slot 0 was calibrated at {131,131,131,131,0,0} and the report
\* {140,131,131,131,0,0} that followed was decoded against that origin.
C6_Witness ==
    /\ Decoded(act, poll_msg_buffer, 0)
    /\ poll_msg_buffer.slot[0] = Moved
    /\ gcn_stick_origin[0] = OriginOf(Centred)
    /\ gcn_data[0].aStickX = 9

\* C7: after a report is decoded, each stick axis of a slot with a valid
\* status is the integer difference between the byte read and the byte of
\* the origin.
C7_AxisIsDifference ==
    \A i \in Slots :
        Decoded(act, poll_msg_buffer, i) =>
            /\ gcn_data[i].aStickX =
                   (poll_msg_buffer.slot[i][4] - 128)
                       - gcn_stick_origin[i].stickX
            /\ gcn_data[i].aStickY =
                   (poll_msg_buffer.slot[i][5] - 128)
                       - gcn_stick_origin[i].stickY
            /\ gcn_data[i].cStickX =
                   (poll_msg_buffer.slot[i][6] - 128)
                       - gcn_stick_origin[i].cStickX
            /\ gcn_data[i].cStickY =
                   (poll_msg_buffer.slot[i][7] - 128)
                       - gcn_stick_origin[i].cStickY

\* The ticks elapsed since the liveness clock was stamped are at least the
\* timeout.
Stale(e) == e.w > 0 \/ ~Gt32(GCN_TIMEOUT, e.t)

\* C1: a PADRead that comes GCN_TIMEOUT ticks or more after the liveness
\* clock was last stamped returns 'no connection' for all four slots.
C1_TimeoutResets ==
    (act.name = "PADRead" /\ Stale(elapsed)) =>
        \A i \in Slots : NoConnection(result[i])

\* C11: when myPADRead has copied the four slots, each slot of the result
\* is the whole state that was stored for it at the one instant the copy
\* began, although a poll completion was waiting all the while.
C11_ConsistentSnapshot ==
    readPc = GCN_CONTROLLER_COUNT => \A i \in Slots : result[i] = seen[i]

\* myPADRead has copied a report's state of slot 0 while the next poll
\* completion was outstanding.
C11_Witness ==
    /\ readPc = GCN_CONTROLLER_COUNT
    /\ Count(inflight, "onDevUsbPoll") = 1
    /\ result[0].error = PADData_ERROR_NONE
    /\ result[0].aStickX = 9
    /\ NoConnection(result[3])

\* C12: PADRead leaves the stored state and the origin of every slot it
\* does not reset to 'no connection' as they were, and two PADReads in a
\* row return the same state for such a slot.
C12_ReadOnlyReads ==
    [][\A i \in Slots :
           (act'.name = "PADRead" /\ ~NoConnection(result'[i])) =>
               /\ gcn_data'[i] = gcn_data[i]
               /\ gcn_stick_origin'[i] = gcn_stick_origin[i]
               /\ act.name = "PADRead" => result'[i] = result[i]]_vars

\* The step recorded a failure of the version probe or of the enumeration
\* and ran onError.
FatalStep ==
    /\ act'.name \in {"onDevGetVersion4", "onDevGetVersion5",
                      "onDevUsbChange4", "onDevUsbChange5",
                      "onDevUsbAttach5"}
    /\ Len(closes') > Len(closes)

\* C13: on a failure of the version probe or of the enumeration a close is
\* submitted for the handle that was open when it failed, and the stored
\* handle becomes -1.
C13_ClosesOpenHandle ==
    [][FatalStep =>
           /\ closes' = Append(closes, dev_usb_hid_fd)
           /\ dev_usb_hid_fd' = -1]_vars

\* The open, the version probe or the enumeration has failed.
FatalFailed == errorMethod \in {1, -1} \/ Len(closes) > 0

\* C14: after a failure of the open, of the version probe or of the
\* enumeration, a later PADRead or completion submits a new open.
C14_Reopens == FatalFailed ~> (opens > 1)

\* The step was a completion of a version query, and whether it recorded a
\* failure (both version callbacks run onError when they do).
VersionStep(name) == act'.name = name

VersionFailure == Len(closes') > Len(closes)

\* What C15 says of the version once it is selected.
VersionKept == version # 0 => version' = version

\* C15 as claimed: a failure of the version probe is recorded only when the
\* version 5 query, issued after the version 4 query failed, has failed
\* too; a query that succeeds selects its version and starts enumeration.
C15_Original ==
    [][/\ (VersionStep("onDevGetVersion4") /\ VersionFailure) => FALSE
       /\ (VersionStep("onDevGetVersion5") /\ VersionFailure) =>
              ~act'.in[1]
       /\ (VersionStep("onDevGetVersion4") /\ act'.in[1]) =>
              /\ version' = 4
              /\ Count(inflight', "onDevUsbChange4") = 1
              /\ ~VersionFailure
       /\ (VersionStep("onDevGetVersion5") /\ act'.in[1]) =>
              /\ version' = 5
              /\ Count(inflight', "onDevUsbChange5") = 1
              /\ ~VersionFailure
       /\ VersionKept]_vars

\* C15, amended: a failure of the version probe is recorded only when the
\* version 5 query, issued after the version 4 query failed, has failed
\* too, or when the request a version callback submits is rejected; a
\* query that succeeds selects its version, for good, and starts
\* enumeration if the enumeration query is accepted.
C15_ProbeBoth ==
    [][/\ (VersionStep("onDevGetVersion4") /\ VersionFailure) =>
              ~act'.in[2]
       /\ (VersionStep("onDevGetVersion5") /\ VersionFailure) =>
              (~act'.in[1] \/ ~act'.in[2])
       /\ (VersionStep("onDevGetVersion4") /\ act'.in[1]) =>
              /\ version' = 4
              /\ act'.in[2] =>
                     /\ Count(inflight', "onDevUsbChange4") = 1
                     /\ ~VersionFailure
       /\ (VersionStep("onDevGetVersion5") /\ act'.in[1]) =>
              /\ version' = 5
              /\ act'.in[2] =>
                     /\ Count(inflight', "onDevUsbChange5") = 1
                     /\ ~VersionFailure
       /\ VersionKept]_vars

\* The version 4 query failed and then the version 5 query failed: stage 3
\* is recorded and no version is selected.
C15_Witness ==
    /\ act.name = "onDevGetVersion5"
    /\ ~act.in[1]
    /\ errorMethod = 3
    /\ version = 0
    /\ dev_usb_hid_fd = -1

\* The last step was a set-resume, get-parameters, init or poll completion
\* that failed, or whose next request was rejected.
LocalFailure(a) ==
    /\ a.name \in {"onDevUsbResume5", "onDevUsbParams5", "onDevUsbInit",
                   "onDevUsbPoll"}
    /\ ~(a.in[1] /\ a.in[2])

StageOf(name) ==
    CASE name = "onDevUsbResume5" -> 6
      [] name = "onDevUsbParams5" -> 7
      [] name = "onDevUsbInit" -> 8
      [] name = "onDevUsbPoll" -> 9

\* The requests of the enumeration, and the request that starts the
\* handshake under each version.
EnumerationCbs == {"onDevUsbChange4", "onDevUsbChange5", "onDevUsbAttach5"}

HandshakeCb(name) ==
    IF name = "onDevUsbChange4" THEN "onDevUsbInit" ELSE "onDevUsbResume5"

\* The last step was a device-list completion that succeeded.
Enumerated(a) ==
    a.name \in {"onDevUsbChange4", "onDevUsbAttach5"} /\ a.in[1]

\* C16: a failure at the set-resume, get-parameters, init or poll stage
\* records its code and its stage, sets gcn_adapter_id to -1, leaves the
\* handle and the enumeration requests alone and closes nothing; a device
\* list that then names the adapter starts the handshake again (the
\* request is outstanding when IOS accepts it).
C16_LocalFailure ==
    [][/\ LocalFailure(act') =>
              /\ error' \in ((Rets \cup Subs) \ {0})
              /\ errorMethod' = StageOf(act'.name)
              /\ gcn_adapter_id' = -1
              /\ dev_usb_hid_fd' = dev_usb_hid_fd
              /\ closes' = closes
              /\ \A cb \in EnumerationCbs :
                     Count(inflight', cb) = Count(inflight, cb)
       /\ (/\ Enumerated(act') /\ act'.in[2] /\ act'.in[5]
           /\ gcn_adapter_id = -1) =>
              Count(inflight', HandshakeCb(act'.name)) =
                  Count(inflight, HandshakeCb(act'.name)) + 1]_vars

\* A poll failed (stage 9, not yet read by PADRead) and the device list
\* that came next started the handshake again.
C16_Witness ==
    /\ act.name = "onDevUsbChange4"
    /\ act.in[1] /\ act.in[2] /\ act.in[5]
    /\ act.in[4] = -1
    /\ errorMethod = 9
    /\ gcn_adapter_id = 1
    /\ Count(inflight, "onDevUsbInit") = 1

\* C17: a device-list completion submits the first request of the
\* handshake (version 4: the initialisation report, version 5: set-resume)
\* if and only if it lists the adapter under an identity other than the
\* tracked one; one that lists the tracked identity submits none.
C17_HandshakeIffNew ==
    [][(act'.name \in {"onDevUsbChange4", "onDevUsbAttach5"}) =>
           LET hs == HandshakeCb(act'.name)
               new == /\ act'.in[1] /\ act'.in[2]
                      /\ act'.in[6] # gcn_adapter_id
           IN  /\ Count(inflight', hs) > Count(inflight, hs) => new
               /\ (new /\ act'.in[5]) =>
                      Count(inflight', hs) = Count(inflight, hs) + 1
               /\ (act'.in[1] /\ act'.in[2]
                       /\ act'.in[6] = gcn_adapter_id) =>
                      /\ Count(inflight', hs) = Count(inflight, hs)
                      /\ gcn_adapter_id' = gcn_adapter_id
                      /\ act'.in[5]]_vars

\* The list named the adapter that was already tracked while its poll was
\* outstanding: no initialisation report was submitted.
C17_Witness ==
    /\ act.name = "onDevUsbChange4"
    /\ act.in[1] /\ act.in[2]
    /\ act.in[4] = 1
    /\ gcn_adapter_id = 1
    /\ Count(inflight, "onDevUsbInit") = 0
    /\ Count(inflight, "onDevUsbPoll") = 1

\* The step submitted a request of callback cb for device x.
Submitted(cb, x) ==
    CopiesIn(Req(cb, x), inflight') > CopiesIn(Req(cb, x), inflight)

\* C18: under version 5, for each identity x, set-resume for x is
\* submitted only when attach-finish has completed successfully,
\* get-parameters for x only when set-resume for x has, the
\* initialisation report for x only when get-parameters for x has, and a
\* first poll only when an initialisation report has.
C18_HandshakeOrder ==
    [][version = 5 =>
           /\ \A x \in {1, 2} :
                  /\ Submitted("onDevUsbResume5", x) =>
                         act'.name = "onDevUsbAttach5" /\ act'.in[1]
                  /\ Submitted("onDevUsbParams5", x) =>
                         /\ act'.name = "onDevUsbResume5"
                         /\ act'.in[1]
                         /\ act'.in[3] = x
                  /\ Submitted("onDevUsbInit", x) =>
                         /\ act'.name = "onDevUsbParams5"
                         /\ act'.in[1]
                         /\ act'.in[3] = x
           /\ Count(inflight', "onDevUsbPoll")
                  > Count(inflight, "onDevUsbPoll") =>
                  act'.name = "onDevUsbInit" /\ act'.in[1]]_vars

\* How many polls IOS holds.
PollsOut(bag) == Count(bag, "onDevUsbPoll")

\* C19: a poll completion with a result that is not negative submits one
\* new poll, whatever the report holds: the polls outstanding stay as many
\* when IOS accepts it and are one fewer when IOS rejects it; they grow
\* fewer in no other step than a poll completion that failed or whose new
\* poll was rejected.
C19_PollChain ==
    [][/\ (act'.name = "onDevUsbPoll" /\ act'.in[1]) =>
              PollsOut(inflight') =
                  IF act'.in[2] THEN PollsOut(inflight)
                  ELSE PollsOut(inflight) - 1
       /\ PollsOut(inflight') < PollsOut(inflight) =>
              act'.name = "onDevUsbPoll" /\ ~(act'.in[1] /\ act'.in[2])]_vars

\* A report of another type completed and the next poll is outstanding.
C19_Witness ==
    /\ act.name = "onDevUsbPoll"
    /\ act.in[1] /\ act.in[2]
    /\ poll_msg_buffer.type = 0
    /\ PollsOut(inflight) = 1

\* The last step decoded a report of the right type.
DecodedReport(a, buf) ==
    a.name = "onDevUsbPoll" /\ a.in[1] /\ buf.type = 33

NibbleValid(buf, i) == (buf.slot[i][1] \div 16) \in {1, 2}

\* What C20 says of the slots: one whose status is not 'connected' becomes
\* 'no connection' with its origin cleared, and every other slot is decoded
\* from its own bytes and origin.
SlotsDecodedAlone ==
    \A i \in Slots :
        IF NibbleValid(poll_msg_buffer', i)
        THEN /\ gcn_stick_origin'[i] =
                    PollOrigin(poll_msg_buffer'.slot[i], gcn_stick_origin[i])
             /\ gcn_data'[i] =
                    PollData(poll_msg_buffer'.slot[i], gcn_stick_origin'[i],
                             gcn_data[i])
        ELSE /\ gcn_stick_origin'[i] =
                    [gcn_stick_origin[i] EXCEPT !.init = 0]
             /\ gcn_data'[i] =
                    [gcn_data[i] EXCEPT
                        !.error = PADData_ERROR_NO_CONNECTION]

SessionKept ==
    UNCHANGED <<error, errorMethod, gcn_adapter_id, dev_usb_hid_fd, closes>>

\* C20 as claimed: a slot without a 'connected' status is reset alone, and
\* no error or stage field, identity or handle changes.
C20_Original ==
    [][DecodedReport(act', poll_msg_buffer') =>
           /\ SlotsDecodedAlone
           /\ (\E i \in Slots : ~NibbleValid(poll_msg_buffer', i)) =>
                  SessionKept]_vars

\* C20, amended: a slot without a 'connected' status is reset alone, and no
\* error or stage field, identity or handle changes provided the next poll,
\* submitted by the same completion, is accepted.
C20_BadSlotAlone ==
    [][DecodedReport(act', poll_msg_buffer') =>
           /\ SlotsDecodedAlone
           /\ (/\ \E i \in Slots : ~NibbleValid(poll_msg_buffer', i)
               /\ act'.in[2]) =>
                  SessionKept]_vars

\* Slot 0 lost its controller in a report that holds one for slot 3.
C20_Witness ==
    /\ DecodedReport(act, poll_msg_buffer)
    /\ act.in[2]
    /\ poll_msg_buffer.slot[0] = Absent
    /\ poll_msg_buffer.slot[3] = Centred
    /\ NoConnection(gcn_data[0])
    /\ gcn_data[0].buttons = 320
    /\ gcn_stick_origin[0].init = 0
    /\ gcn_data[3].error = PADData_ERROR_NONE
    /\ gcn_stick_origin[3].init = 1

\* The stage ordinal each callback records.
StageNumber(name) ==
    CASE name = "onDevOpen" -> 1
      [] name = "onDevGetVersion4" -> 2
      [] name = "onDevGetVersion5" -> 3
      [] name = "onDevUsbChange5" -> 4
      [] name = "onDevUsbChange4" -> 5
      [] name = "onDevUsbAttach5" -> 5
      [] OTHER -> StageOf(name)

\* The last step was a completion whose stage failed: a failing result, a
\* version 5 value that does not match, or a rejected submission of a next
\* operation.
StageFailed(a) ==
    CASE a.name = "onDevOpen" -> ~a.in[1]
      [] a.name = "onDevGetVersion4" -> ~a.in[2]
      [] a.name = "onDevGetVersion5" -> ~a.in[1] \/ ~a.in[2]
      [] a.name = "onDevUsbChange5" -> ~a.in[1]
      [] a.name \in {"onDevUsbChange4", "onDevUsbAttach5"} ->
             ~a.in[1] \/ ~a.in[3] \/ ~a.in[5]
      [] a.name \in {"onDevUsbResume5", "onDevUsbParams5", "onDevUsbInit",
                     "onDevUsbPoll"} -> ~(a.in[1] /\ a.in[2])
      [] OTHER -> FALSE

\* C21: every failure of a bring-up or poll stage sets errorMethod to the
\* positive ordinal of that stage.
C21_FailureRecorded ==
    [][StageFailed(act') =>
           errorMethod' > 0 /\ errorMethod' = StageNumber(act'.name)]_vars

\* The last step was a poll cycle that took a snapshot out of the queue.
Dequeued == rumble_recv' # rumble_recv

\* C22: the cursors' difference modulo the capacity is the number of
\* snapshots enqueued and not yet dequeued, whatever the number of motor
\* calls between poll cycles, and each poll cycle that dequeues takes the
\* oldest of them.
C22_QueueCount ==
    /\ [](Pending = Len(queued))
    /\ [][Dequeued =>
              /\ queued # <<>>
              /\ rumble_buffer[rumble_recv] = Head(queued)]_vars

\* C23: once poll() has run, a slot's calibration origin is set exactly
\* when the slot's stored status is not 'no connection'.
C23_OriginIffConnected ==
    started = 1 =>
        \A i \in Slots :
            gcn_stick_origin[i].init = 1 <=> ~NoConnection(gcn_data[i])

\* C23: a report with a bad nibble in slot 0 was decoded: slot 0 is 'no
\* connection' without an origin while slot 3 keeps its data and its origin.
C23_Witness ==
    /\ started = 1
    /\ act.name = "onDevUsbPoll"
    /\ act.in[1]
    /\ NoConnection(gcn_data[0])
    /\ gcn_stick_origin[0].init = 0
    /\ gcn_data[3].error = PADData_ERROR_NONE
    /\ gcn_stick_origin[3].init = 1

\* C24: at most one input poll is outstanding at any time.
C24_OnePoll == PollsOut(inflight) <= 1

\* C25: whatever the device-change buffer holds, the scan of a successful
\* version 4 enumeration completion ends, and the completion re-issues the
\* enumeration query.
C25_ScanTerminates ==
    [][act'.name = "onDevUsbChange4" /\ act'.in[1] =>
           /\ ~hung'
           /\ Count(inflight', "onDevUsbChange4") = 1]_vars

=============================================================================
